---- MODULE Spec2Model ----
(***************************************************************************)
(* The meeting calendar of src/tools/calendar_tools.py: class Calendar     *)
(* (meetings, next_id, working-time policy) and the tool classes that call *)
(* it (AddMeetingTool, RemoveMeetingTool, ListMeetingsTool,                *)
(* FindFreeSlotTool, IsTimeAvailableTool,                                  *)
(* SetWorkingDaysTool, SetWorkingHoursTool), called one at a time (Spec),  *)
(* and Calendar.add_meeting called by two threads at once (SpecThreads).   *)
(*                                                                         *)
(* A datetime is the number of minutes since 2025-01-01 00:00 (naive local *)
(* time, minute resolution: strptime "%Y-%m-%d %H:%M" and                  *)
(* timedelta(minutes=...) never produce seconds).  A timedelta is a number *)
(* of minutes.                                                             *)
(***************************************************************************)
EXTENDS Integers, Sequences, FiniteSets, TLC

VARIABLES meetings, next_id, working_days, work_start_hour, work_end_hour, last,
          threads, lock, locking, _emails, _threads

vars == <<meetings, next_id, working_days, work_start_hour, work_end_hour, last,
          threads, lock, locking, _emails, _threads>>

\* The fields of the Calendar object, as the `self` the methods receive.
Self ==
  [meetings |-> meetings, next_id |-> next_id, working_days |-> working_days,
   work_start_hour |-> work_start_hour, work_end_hour |-> work_end_hour]

-----------------------------------------------------------------------------
(* Bounds of the model.                                                    *)

\* An add_meeting that would store a meeting is made while next_id <= MaxId:
\* at most MaxId meetings are ever created.
MaxId == 2

\* A sweep of find_next_free_slot / _next_working_time that has moved more
\* than HorizonDays days past the later of its start and the last meeting end
\* never returns: past the last meeting the sweep only sees the weekly
\* pattern of the policy, which repeats every 7 days.
HorizonDays == 16

-----------------------------------------------------------------------------
(* datetime / timedelta arithmetic.                                        *)

Day == 24 * 60

\* datetime.date(): the day number, day 0 being 2025-01-01.
date_of(t) == t \div Day

\* datetime.weekday(): 0 = Monday .. 6 = Sunday; 2025-01-01 is a Wednesday.
weekday(t) == (date_of(t) + 2) % 7

\* datetime.hour
hour_of(t) == (t % Day) \div 60

\* datetime.minute
minute_of(t) == t % 60

\* t.replace(hour=h, minute=0, second=0, microsecond=0), for 0 <= h <= 23.
replace_hour(t, h) == date_of(t) * Day + h * 60

\* t.replace(hour=h), for 0 <= h <= 23: the minutes of t are kept.
replace_hour_only(t, h) == date_of(t) * Day + h * 60 + minute_of(t)

\* t.replace(hour=h) and datetime(y, m, d, h, 0, 0) raise ValueError unless
\* 0 <= h <= 23.
hour_is_valid(h) == h \in 0..23

\* Number of days of each month of 2025 (not a leap year).
days_in_month(m) ==
  CASE m \in {1, 3, 5, 7, 8, 10, 12} -> 31
    [] m \in {4, 6, 9, 11} -> 30
    [] OTHER -> 28

RECURSIVE days_before_month(_)
days_before_month(m) ==
  IF m <= 1 THEN 0 ELSE days_before_month(m - 1) + days_in_month(m - 1)

NoTime == <<>>

\* strptime that accepts every day from 1 to 31 in every month.
strptime_any_day(date, time) ==
  LET dateOk == date[2] \in 1..12 /\ date[3] \in 1..31
      timeOk == time = NoTime \/ (time[1] \in 0..23 /\ time[2] \in 0..59)
      mins   == IF time = NoTime THEN 0 ELSE time[1] * 60 + time[2]
  IN IF dateOk /\ timeOk
     THEN [ok |-> TRUE,
           t |-> (days_before_month(date[2]) + date[3] - 1) * Day + mins]
     ELSE [ok |-> FALSE, t |-> 0]

\* datetime.strptime(f"{date} {time}", "%Y-%m-%d %H:%M") for a date string
\* <<year, month, day>> of 2025 and a time string <<hours, minutes>>, and
\* datetime.strptime(date, "%Y-%m-%d") when time is None: the parsed
\* datetime, or a ValueError for a day, an hour or a minute out of range.
strptime(date, time) ==
  LET dateOk == /\ date[2] \in 1..12
                /\ date[3] \in 1..days_in_month(date[2])
      timeOk == time = NoTime \/ (time[1] \in 0..23 /\ time[2] \in 0..59)
      mins   == IF time = NoTime THEN 0 ELSE time[1] * 60 + time[2]
  IN IF dateOk /\ timeOk
     THEN [ok |-> TRUE,
           t |-> (days_before_month(date[2]) + date[3] - 1) * Day + mins]
     ELSE [ok |-> FALSE, t |-> 0]

-----------------------------------------------------------------------------
(* class Meeting                                                           *)

\* Meeting.__init__ that keeps the default priority.
Meeting_default_priority(id, topic, organizer, duration, start_time, priority) ==
  [id |-> id, topic |-> topic, organizer |-> organizer, duration |-> duration,
   start_time |-> start_time, priority |-> "MEDIUM"]

\* Meeting.__init__: duration is timedelta(minutes=duration).
Meeting(id, topic, organizer, duration, start_time, priority) ==
  [id |-> id, topic |-> topic, organizer |-> organizer, duration |-> duration,
   start_time |-> start_time, priority |-> priority]

\* Meeting.end_time
end_time(m) == m.start_time + m.duration

\* Meeting.__str__: the text names the id, the topic, the organizer, the
\* start, the end, the duration and the priority.
Meeting_str(m) ==
  [id |-> m.id, topic |-> m.topic, organizer |-> m.organizer,
   start |-> m.start_time, end |-> end_time(m), duration |-> m.duration,
   priority |-> m.priority]

-----------------------------------------------------------------------------
(* class Calendar                                                          *)

\* Calendar.__init__
Calendar_init ==
  [meetings |-> <<>>, next_id |-> 1, working_days |-> {0, 1, 2, 3, 4},
   work_start_hour |-> 9, work_end_hour |-> 18]

\* set_working_days that also drops the meetings on days that are no longer
\* working days.
set_working_days_drops_meetings(self, days) ==
  [self EXCEPT !.working_days = days,
               !.meetings = SelectSeq(self.meetings,
                                      LAMBDA m : weekday(m.start_time) \in days)]

\* Calendar.set_working_days
set_working_days(self, days) == [self EXCEPT !.working_days = days]

\* The test of set_working_hours with start_hour <= end_hour.
hours_are_valid_or_equal(start_hour, end_hour) ==
  0 <= start_hour /\ start_hour <= end_hour /\ end_hour <= 24

\* The test of Calendar.set_working_hours.
hours_are_valid(start_hour, end_hour) ==
  0 <= start_hour /\ start_hour < end_hour /\ end_hour <= 24

\* set_working_hours that assigns work_start_hour before it tests the hours.
set_working_hours_assign_first(self, start_hour, end_hour) ==
  IF hours_are_valid(start_hour, end_hour)
  THEN [raised |-> FALSE,
        self |-> [self EXCEPT !.work_start_hour = start_hour,
                              !.work_end_hour = end_hour]]
  ELSE [raised |-> TRUE, self |-> [self EXCEPT !.work_start_hour = start_hour]]

\* Calendar.set_working_hours: the new object, or ValueError raised.
set_working_hours(self, start_hour, end_hour) ==
  IF hours_are_valid(start_hour, end_hour)
  THEN [raised |-> FALSE,
        self |-> [self EXCEPT !.work_start_hour = start_hour,
                              !.work_end_hour = end_hour]]
  ELSE [raised |-> TRUE, self |-> self]

\* Calendar.is_working_time
is_working_time(self, time) ==
  IF weekday(time) \notin self.working_days
  THEN FALSE
  ELSE self.work_start_hour <= hour_of(time) /\ hour_of(time) < self.work_end_hour

\* The overlap test with the bounds included: touching intervals overlap.
overlaps_closed(start_time, requested_end_time, m) ==
  start_time <= end_time(m) /\ m.start_time <= requested_end_time

\* The overlap test of add_meeting, find_next_free_slot and
\* get_conflicting_meetings.
overlaps(start_time, requested_end_time, m) ==
  start_time < end_time(m) /\ m.start_time < requested_end_time

\* is_free_for with a scan that only looks whether the requested start lies
\* inside a stored meeting.
is_free_for_start_only(self, start_time, duration) ==
  \A i \in 1..Len(self.meetings) :
    ~(start_time < end_time(self.meetings[i])
      /\ self.meetings[i].start_time <= start_time)

\* The scan of Calendar.add_meeting: no stored meeting overlaps the request.
is_free_for(self, start_time, duration) ==
  \A i \in 1..Len(self.meetings) :
    ~overlaps(start_time, start_time + duration, self.meetings[i])

\* add_meeting that stores the meeting under the number of stored meetings
\* plus one and leaves next_id alone.
add_meeting_id_by_count(self, topic, organizer, duration, start_time, priority) ==
  IF is_free_for(self, start_time, duration)
  THEN [raised |-> FALSE, ret |-> TRUE,
        self |-> [self EXCEPT
                    !.meetings = Append(self.meetings,
                                        Meeting(Len(self.meetings) + 1, topic,
                                                organizer, duration, start_time,
                                                priority))]]
  ELSE [raised |-> TRUE, ret |-> FALSE, self |-> self]

\* add_meeting that refuses a meeting that does not start in working time.
add_meeting_in_working_time(self, topic, organizer, duration, start_time, priority) ==
  IF is_free_for(self, start_time, duration) /\ is_working_time(self, start_time)
  THEN [raised |-> FALSE, ret |-> TRUE,
        self |-> [self EXCEPT
                    !.meetings = Append(self.meetings,
                                        Meeting(self.next_id, topic, organizer,
                                                duration, start_time, priority)),
                    !.next_id = self.next_id + 1]]
  ELSE [raised |-> TRUE, ret |-> FALSE, self |-> self]

\* Calendar.add_meeting: True returned and the meeting appended, or
\* ValueError raised.
add_meeting(self, topic, organizer, duration, start_time, priority) ==
  IF is_free_for(self, start_time, duration)
  THEN [raised |-> FALSE, ret |-> TRUE,
        self |-> [self EXCEPT
                    !.meetings = Append(self.meetings,
                                        Meeting(self.next_id, topic, organizer,
                                                duration, start_time, priority)),
                    !.next_id = self.next_id + 1]]
  ELSE [raised |-> TRUE, ret |-> FALSE, self |-> self]

\* list.remove(m): the list without its element at position i.
remove_at(s, i) == SubSeq(s, 1, i - 1) \o SubSeq(s, i + 1, Len(s))

\* remove_meeting that removes the last meeting of the list when the id is
\* found.
remove_meeting_pops_last(self, id) ==
  IF \E i \in 1..Len(self.meetings) : self.meetings[i].id = id
  THEN [ret |-> TRUE,
        self |-> [self EXCEPT
                    !.meetings = remove_at(self.meetings, Len(self.meetings))]]
  ELSE [ret |-> FALSE, self |-> self]

\* remove_meeting that removes the first meeting of the list when the id is
\* found.
remove_meeting_pops_first(self, id) ==
  IF \E i \in 1..Len(self.meetings) : self.meetings[i].id = id
  THEN [ret |-> TRUE,
        self |-> [self EXCEPT !.meetings = remove_at(self.meetings, 1)]]
  ELSE [ret |-> FALSE, self |-> self]

\* Calendar.remove_meeting: the first meeting with that id is removed.
remove_meeting(self, id) ==
  LET found == {i \in 1..Len(self.meetings) : self.meetings[i].id = id}
  IN IF found # {}
     THEN LET i == CHOOSE j \in found : \A k \in found : j <= k
          IN [ret |-> TRUE,
              self |-> [self EXCEPT !.meetings = remove_at(self.meetings, i)]]
     ELSE [ret |-> FALSE, self |-> self]

\* get_conflicting_meetings that returns the meetings that start inside the
\* interval.
get_conflicting_meetings_by_start(self, start_time, duration) ==
  SelectSeq(self.meetings,
            LAMBDA m : /\ start_time <= m.start_time
                       /\ m.start_time < start_time + duration)

\* Calendar.get_conflicting_meetings
get_conflicting_meetings(self, start_time, duration) ==
  SelectSeq(self.meetings,
            LAMBDA m : overlaps(start_time, start_time + duration, m))

\* sorted(self.meetings, key=lambda m: m.start_time): a stable insertion of
\* each meeting after the meetings that start no later.
insert_sorted(sorted, m) ==
  LET before == {i \in 1..Len(sorted) : sorted[i].start_time <= m.start_time}
      k == Cardinality(before)
  IN SubSeq(sorted, 1, k) \o <<m>> \o SubSeq(sorted, k + 1, Len(sorted))

\* sorted(...) that leaves the list in the order of insertion.
sorted_by_start_unsorted(ms) == ms

RECURSIVE sorted_by_start(_)
sorted_by_start(ms) ==
  IF ms = <<>> THEN <<>>
  ELSE insert_sorted(sorted_by_start(SubSeq(ms, 1, Len(ms) - 1)), ms[Len(ms)])

\* list_meetings that prints the meetings by ascending start.
list_meetings_sorted(self) ==
  LET sorted_meetings == sorted_by_start(self.meetings)
  IN [i \in 1..Len(sorted_meetings) |-> Meeting_str(sorted_meetings[i])]

\* Calendar.list_meetings: the lines printed, one str(m) for each meeting of
\* self.meetings in the order of the list ("Календарь пуст" alone when the
\* list is empty).
list_meetings(self) ==
  [i \in 1..Len(self.meetings) |-> Meeting_str(self.meetings[i])]

\* Calendar.get_state_string: str(m) for the meetings sorted by start.
get_state_string(self) ==
  LET sorted_meetings == sorted_by_start(self.meetings)
  IN [i \in 1..Len(sorted_meetings) |-> Meeting_str(sorted_meetings[i])]

\* What a call that computes a datetime ends with: the datetime returned, a
\* ValueError raised by datetime, or no return at all.
Returned(t) == [kind |-> "ok", t |-> t]
Raised == [kind |-> "ValueError", t |-> 0]
Hangs == [kind |-> "hang", t |-> 0]

\* The timestamp past which a sweep that started at start_time never returns.
sweep_limit(self, start_time) ==
  LET ends == {end_time(self.meetings[i]) : i \in 1..Len(self.meetings)}
                \cup {start_time}
  IN (CHOOSE e \in ends : \A f \in ends : f <= e) + HorizonDays * Day

\* The loop of lines 247-248 without the return to work_start_hour:00.
RECURSIVE skip_non_working_days_keeps_time(_, _, _)
skip_non_working_days_keeps_time(self, current, limit) ==
  IF weekday(current) \in self.working_days THEN Returned(current)
  ELSE IF current > limit THEN Hangs
  ELSE skip_non_working_days_keeps_time(self, current + Day, limit)

\* The loop of _next_working_time, lines 247-248.
RECURSIVE skip_non_working_days(_, _, _)
skip_non_working_days(self, current, limit) ==
  IF weekday(current) \in self.working_days THEN Returned(current)
  ELSE IF current > limit THEN Hangs
  ELSE skip_non_working_days(
         self, replace_hour(current, self.work_start_hour) + Day, limit)

\* The loop of _next_working_time, lines 252-253.
RECURSIVE skip_days(_, _, _)
skip_days(self, current, limit) ==
  IF weekday(current) \in self.working_days THEN Returned(current)
  ELSE IF current > limit THEN Hangs
  ELSE skip_days(self, current + Day, limit)

\* _next_working_time that rolls to the next day without going back to
\* midnight.
next_working_time_no_midnight(self, time, limit) ==
  skip_non_working_days(
    self,
    IF hour_of(time) >= self.work_end_hour THEN time + Day
    ELSE IF hour_of(time) < self.work_start_hour
    THEN replace_hour(time, self.work_start_hour)
    ELSE time,
    limit)

\* The end of _next_working_time (lines 250-255), r being what the loop of
\* lines 247-248 ended with.
after_skip(self, r, limit) ==
  IF r.kind # "ok" THEN r
  ELSE IF hour_of(r.t) < self.work_start_hour
  THEN skip_days(self, replace_hour(r.t, self.work_start_hour), limit)
  ELSE r

\* The clamp of _next_working_time (lines 244-245).
clamp_to_start(self, current) ==
  IF hour_of(current) < self.work_start_hour
  THEN replace_hour(current, self.work_start_hour)
  ELSE current

\* Calendar._next_working_time
next_working_time(self, time, limit) ==
  after_skip(self,
             skip_non_working_days(
               self,
               clamp_to_start(self, IF hour_of(time) >= self.work_end_hour
                                    THEN replace_hour(time, 0) + Day
                                    ELSE time),
               limit),
             limit)

\* current_time after lines 179-180 and 195-196: moved to the next working
\* time when it is not working time.
to_working_time(self, current_time, limit) ==
  IF ~is_working_time(self, current_time)
  THEN next_working_time(self, current_time, limit)
  ELSE Returned(current_time)

\* The for loop of find_next_free_slot (lines 191-197): the position in
\* sorted_meetings of the first meeting that overlaps [current_time,
\* potential_end_time), 0 when there is none.
RECURSIVE first_overlap(_, _, _, _)
first_overlap(sorted_meetings, i, current_time, potential_end_time) ==
  IF i > Len(sorted_meetings) THEN 0
  ELSE IF overlaps(current_time, potential_end_time, sorted_meetings[i]) THEN i
  ELSE first_overlap(sorted_meetings, i + 1, current_time, potential_end_time)

RECURSIVE sweep(_, _, _, _, _)

\* The next pass of the `while True` loop, from the datetime `next` when the
\* call that computed it returned one.
sweep_from(self, sorted_meetings, next, duration, limit) ==
  IF next.kind # "ok" THEN next
  ELSE sweep(self, sorted_meetings, next.t, duration, limit)

\* One pass of the `while True` loop of find_next_free_slot (lines 188-211),
\* hit being the position of the first overlapping meeting.
sweep_pass(self, sorted_meetings, current_time, duration, limit, hit) ==
  IF hit # 0
  THEN \* is_free = False: on from the end of the overlapping meeting
       sweep_from(self, sorted_meetings,
                  to_working_time(self, end_time(sorted_meetings[hit]), limit),
                  duration, limit)
  ELSE \* is_free: end_of_workday = datetime(y, m, d, work_end_hour, 0, 0)
       IF ~hour_is_valid(self.work_end_hour) THEN Raised
       ELSE IF current_time + duration
                 <= replace_hour(current_time, self.work_end_hour)
       THEN Returned(current_time)
       ELSE sweep_from(self, sorted_meetings,
                       next_working_time(
                         self, replace_hour_only(current_time, self.work_end_hour),
                         limit),
                       duration, limit)

\* The `while True` loop of find_next_free_slot from current_time.
sweep(self, sorted_meetings, current_time, duration, limit) ==
  IF current_time > limit THEN Hangs
  ELSE sweep_pass(self, sorted_meetings, current_time, duration, limit,
                  first_overlap(sorted_meetings, 1, current_time,
                                current_time + duration))

\* Calendar.find_next_free_slot
find_next_free_slot(self, start_time, duration) ==
  LET limit == sweep_limit(self, start_time)
      first == to_working_time(self, start_time, limit)
      sorted_meetings == sorted_by_start(self.meetings)
  IN IF first.kind # "ok" THEN first
     ELSE IF sorted_meetings = <<>>
     THEN IF hour_of(first.t) < self.work_start_hour
          THEN Returned(replace_hour(first.t, self.work_start_hour))
          ELSE first
     ELSE sweep(self, sorted_meetings, first.t, duration, limit)

-----------------------------------------------------------------------------
(* The tool classes.  `last` is the last tool call: its name, its          *)
(* arguments and how it ended: status "returned" (data is the result       *)
(* dictionary's content), "raised" (an exception left forward(); message   *)
(* is its text) or "hang" (forward() never returns).                       *)

\* The inputs the calls are given.  A date is <<year, month, day>>, a time
\* <<hours, minutes>> or None; 2025-04-28 is a Monday, 2025-04-26 a Saturday.
NoPriority == ""

\* <<topic, organizer, duration in minutes, date, time, priority>>
AddRequests ==
  {<<"A", "ann", 60, <<2025, 4, 28>>, <<10, 0>>, NoPriority>>,
   <<"B", "bob", 30, <<2025, 4, 28>>, <<10, 30>>, "high">>,
   <<"C", "ann", 60, <<2025, 4, 28>>, <<11, 0>>, "LOW">>,
   <<"D", "bob", 60, <<2025, 4, 28>>, <<17, 30>>, NoPriority>>,
   <<"Z", "ann", 0, <<2025, 4, 28>>, <<10, 30>>, "high">>,
   <<"B", "bob", 30, <<2025, 4, 28>>, <<10, 30>>, "URGENT">>,
   <<"A", "ann", 60, <<2025, 4, 31>>, <<10, 0>>, NoPriority>>,
   <<"A", "ann", 60, <<2025, 4, 28>>, <<24, 0>>, NoPriority>>}

\* <<date, time>>
FindStarts == {<<<<2025, 4, 26>>, NoTime>>, <<<<2025, 4, 28>>, NoTime>>,
               <<<<2025, 4, 28>>, <<10, 30>>>>, <<<<2025, 4, 28>>, <<17, 30>>>>,
               <<<<2025, 13, 1>>, NoTime>>, <<<<2025, 4, 28>>, <<10, 60>>>>,
               <<<<2025, 4, 26>>, <<10, 0>>>>}
FindDurations == {30, 60, 600}

\* Lists of weekdays.
DayLists == {<<0, 1, 2, 3, 4>>, <<>>, <<5, 5>>, <<1, 7>>}

\* <<duration in minutes, date, time>> of is_time_available
AvailabilityChecks ==
  {<<60, <<2025, 4, 28>>, <<10, 0>>>>, <<60, <<2025, 4, 28>>, <<17, 30>>>>,
   <<30, <<2025, 4, 26>>, <<10, 30>>>>, <<60, <<2025, 4, 31>>, <<10, 0>>>>}

\* <<work_start_hour, work_end_hour>>
HourPairs == {<<9, 18>>, <<0, 24>>, <<20, 18>>, <<12, 12>>, <<0 - 1, 18>>, <<9, 25>>}

\* str.upper() on the priority strings.
upper(s) == IF s = "high" THEN "HIGH" ELSE s

\* class Priority: the names of the enum.
Priority == {"LOW", "MEDIUM", "HIGH"}

\* What a call ended with.
Outcome(op, args, status, success, message, data) ==
  [op |-> op, args |-> args, status |-> status, success |-> success,
   message |-> message, data |-> data]

\* The text of the ValueError of AddMeetingTool.forward, line 354: the topics
\* of the conflicting meetings and the next free slot.
ConflictText(topics, next_slot) ==
  [text |-> "conflict", topics |-> topics, next_slot |-> next_slot]

\* The text of an exception or result that names no meeting and no slot.
Text(text) == [text |-> text, topics |-> <<>>, next_slot |-> <<>>]

\* The threads that call Calendar.add_meeting at once.
Threads == {1, 2}

\* The lock when no thread holds it.
Free == 0

\* A thread that is in no call: where it is in add_meeting (pc), the
\* arguments of its call, the position of its for loop over self.meetings,
\* the self.next_id it read for the new meeting (id) and for next_id += 1
\* (read), and how its last call ended.
IdleThread(result) ==
  [pc |-> "idle",
   request |-> [topic |-> "", organizer |-> "", duration |-> 0,
                start_time |-> 0, priority |-> ""],
   index |-> 0, id |-> 0, read |-> 0, result |-> result]

\* The Calendar object after a call of the one caller of the tools; no
\* thread is inside add_meeting.
Store(self) ==
  /\ meetings' = self.meetings
  /\ next_id' = self.next_id
  /\ working_days' = self.working_days
  /\ work_start_hour' = self.work_start_hour
  /\ work_end_hour' = self.work_end_hour
  /\ UNCHANGED <<threads, lock, locking, _emails, _threads>>

\* No call is made while a call has not returned.
Idle == last.status # "hang"

\* AddMeetingTool.forward
AddMeetingTool_forward(topic, organizer, duration, date, time, priority) ==
  LET args == [topic |-> topic, organizer |-> organizer, duration |-> duration,
               date |-> date, time |-> time, priority |-> priority]
      parsed == strptime(date, time)
      priority_enum == IF priority # NoPriority THEN upper(priority) ELSE "MEDIUM"
      r == add_meeting(Self, topic, organizer, duration, parsed.t, priority_enum)
  IN /\ Idle
     /\ (priority_enum \in Priority /\ parsed.ok /\ ~r.raised) => next_id <= MaxId
     /\ IF priority_enum \notin Priority
        THEN /\ last' = Outcome("add_meeting", args, "raised", FALSE,
                                Text("bad priority"), <<>>)
             /\ Store(Self)
        ELSE IF ~parsed.ok
        THEN /\ last' = Outcome("add_meeting", args, "raised", FALSE,
                                Text("bad date or time"), <<>>)
             /\ Store(Self)
        ELSE IF r.raised
        THEN \* the ValueError of Calendar.add_meeting leaves forward()
             /\ last' = Outcome("add_meeting", args, "raised", FALSE,
                                Text("busy"), <<>>)
             /\ Store(r.self)
        ELSE IF r.ret
        THEN /\ last' = Outcome("add_meeting", args, "returned", TRUE,
                                Text("added"), <<>>)
             /\ Store(r.self)
        ELSE LET conflicting_meetings ==
                   get_conflicting_meetings(r.self, parsed.t, duration)
                 next_slot == find_next_free_slot(r.self, parsed.t, duration)
                 topics == [i \in 1..Len(conflicting_meetings) |->
                              conflicting_meetings[i].topic]
             IN /\ last' = Outcome("add_meeting", args,
                                   IF next_slot.kind = "hang" THEN "hang" ELSE "raised",
                                   FALSE,
                                   IF next_slot.kind = "ok"
                                   THEN ConflictText(topics, <<next_slot.t>>)
                                   ELSE Text("datetime"),
                                   <<>>)
                /\ Store(r.self)

\* RemoveMeetingTool.forward that raises when the id is not found.
RemoveMeetingTool_forward_raises(meeting_id) ==
  LET r == remove_meeting(Self, meeting_id)
  IN /\ Idle
     /\ last' = Outcome("remove_meeting", [meeting_id |-> meeting_id],
                        IF r.ret THEN "returned" ELSE "raised",
                        r.ret, Text(IF r.ret THEN "removed" ELSE "not found"), <<>>)
     /\ Store(r.self)

\* RemoveMeetingTool.forward
RemoveMeetingTool_forward(meeting_id) ==
  LET r == remove_meeting(Self, meeting_id)
  IN /\ Idle
     /\ last' = Outcome("remove_meeting", [meeting_id |-> meeting_id], "returned",
                        r.ret, Text(IF r.ret THEN "removed" ELSE "not found"), <<>>)
     /\ Store(r.self)

\* ListMeetingsTool.forward: returns what list_meetings printed; data is
\* the printed meetings, message the text printed for an empty calendar.
ListMeetingsTool_forward ==
  /\ Idle
  /\ last' = Outcome("list_meetings", <<>>, "returned", TRUE,
                     Text(IF meetings = <<>> THEN "calendar is empty" ELSE ""),
                     list_meetings(Self))
  /\ Store(Self)

\* FindFreeSlotTool.forward after the date and time are parsed: the result
\* for what find_next_free_slot ended with.
find_outcome(args, next_slot) ==
  IF next_slot.kind = "hang"
  THEN Outcome("find_free_slot", args, "hang", FALSE, Text(""), <<>>)
  ELSE IF next_slot.kind = "ValueError"
  THEN Outcome("find_free_slot", args, "returned", FALSE, Text("error"), <<>>)
  ELSE Outcome("find_free_slot", args, "returned", TRUE, Text("found"),
               <<next_slot.t>>)

\* FindFreeSlotTool.forward with a search that sorts self.meetings in place.
FindFreeSlotTool_forward_sorts_in_place(duration, date, time) ==
  LET args == [duration |-> duration, date |-> date, time |-> time]
      parsed == strptime(date, time)
  IN /\ Idle
     /\ IF ~parsed.ok
        THEN /\ last' = Outcome("find_free_slot", args, "returned", FALSE,
                                Text("bad date or time"), <<>>)
             /\ Store(Self)
        ELSE /\ last' = find_outcome(
                          args, find_next_free_slot(Self, parsed.t, duration))
             /\ Store([Self EXCEPT !.meetings = sorted_by_start(meetings)])

\* FindFreeSlotTool.forward
FindFreeSlotTool_forward(duration, date, time) ==
  LET args == [duration |-> duration, date |-> date, time |-> time]
      parsed == strptime(date, time)
  IN /\ Idle
     /\ IF ~parsed.ok
        THEN last' = Outcome("find_free_slot", args, "returned", FALSE,
                             Text("bad date or time"), <<>>)
        ELSE last' = find_outcome(
                       args, find_next_free_slot(Self, parsed.t, duration))
     /\ Store(Self)

\* IsTimeAvailableTool.forward
IsTimeAvailableTool_forward(duration, date, time) ==
  LET args == [duration |-> duration, date |-> date, time |-> time]
      parsed == strptime(date, time)
      check_start_time == parsed.t
      check_end_time == check_start_time + duration
      is_start_working == is_working_time(Self, check_start_time)
      end_of_workday == replace_hour(check_start_time, work_end_hour)
      is_end_within_working ==
        /\ date_of(check_start_time) = date_of(check_end_time)
        /\ check_end_time <= end_of_workday
      is_working_time_slot == is_start_working /\ is_end_within_working
      conflicting_meetings ==
        get_conflicting_meetings(Self, check_start_time, duration)
      is_free == conflicting_meetings = <<>>
      available == is_working_time_slot /\ is_free
  IN /\ Idle
     /\ IF ~parsed.ok
        THEN last' = Outcome("is_time_available", args, "returned", FALSE,
                             Text("bad date or time"), <<>>)
        ELSE IF ~hour_is_valid(work_end_hour)
        THEN \* replace(hour=work_end_hour) raises, line 508; caught at 548
             last' = Outcome("is_time_available", args, "returned", FALSE,
                             Text("error"), <<>>)
        ELSE last' = Outcome(
                       "is_time_available", args, "returned", available,
                       [text |-> IF available THEN "available"
                                 ELSE IF is_working_time_slot
                                 THEN "not available: conflict"
                                 ELSE IF is_free
                                 THEN "not available: not working time"
                                 ELSE "not available: not working time; conflict",
                        topics |-> [i \in 1..Len(conflicting_meetings) |->
                                      conflicting_meetings[i].topic],
                        next_slot |-> <<>>],
                       <<[available |-> available,
                          is_working_time |-> is_working_time_slot,
                          is_free_from_meetings |-> is_free,
                          conflicting_meetings |->
                            [i \in 1..Len(conflicting_meetings) |->
                               conflicting_meetings[i].id]]>>)
     /\ Store(Self)

\* SetWorkingDaysTool.forward
SetWorkingDaysTool_forward(days) ==
  LET args == [working_days |-> days]
      valid_days == {days[i] : i \in 1..Len(days)}
  IN /\ Idle
     /\ IF ~(\A i \in 1..Len(days) : 0 <= days[i] /\ days[i] <= 6)
        THEN /\ last' = Outcome("set_working_days", args, "returned", FALSE,
                                Text("bad working days"), <<>>)
             /\ Store(Self)
        ELSE /\ last' = Outcome("set_working_days", args, "returned", TRUE,
                                Text("working days set"), <<>>)
             /\ Store(set_working_days(Self, valid_days))

\* SetWorkingHoursTool.forward
SetWorkingHoursTool_forward(hours) ==
  LET args == [work_start_hour |-> hours[1], work_end_hour |-> hours[2]]
      r == set_working_hours(Self, hours[1], hours[2])
  IN /\ Idle
     /\ IF r.raised
        THEN last' = Outcome("set_working_hours", args, "returned", FALSE,
                             Text("bad working hours"), <<>>)
        ELSE last' = Outcome("set_working_hours", args, "returned", TRUE,
                             Text("working hours set"), <<>>)
     /\ Store(r.self)

-----------------------------------------------------------------------------
(* mail_tools.py: class Mailbox.  A dict is a function on its keys; an     *)
(* Email is its email_id, thread_id and subject (the sender, recipients,   *)
(* body and timestamp are carried along and never read by the Mailbox).    *)

\* The fields of the Mailbox object, as the `self` its methods receive.
MailSelf == [_emails |-> _emails, _threads |-> _threads]

\* Email.__init__ with the email_id and the thread_id given.
Email(subject, thread_id, email_id) ==
  [email_id |-> email_id, thread_id |-> thread_id, subject |-> subject]

\* An empty dict.
EmptyDict == [key \in {} |-> key]

\* d[key] = value of a dict.
setitem(d, key, value) ==
  [k \in DOMAIN d \cup {key} |-> IF k = key THEN value ELSE d[k]]

\* del d[key] / d.pop(key) of a dict that has the key.
delitem(d, key) == [k \in DOMAIN d \ {key} |-> d[k]]

\* Mailbox.__init__.
Mailbox_init == [_emails |-> EmptyDict, _threads |-> EmptyDict]

\* Mailbox.add_email(email).
add_email(self, email) ==
  LET with_thread ==
        IF email.thread_id \notin DOMAIN self._threads
        THEN setitem(self._threads, email.thread_id, <<>>)
        ELSE self._threads
      listed == with_thread[email.thread_id]
  IN [_emails |-> setitem(self._emails, email.email_id, email),
      _threads |->
        IF \A i \in 1..Len(listed) : listed[i] # email.email_id
        THEN setitem(with_thread, email.thread_id,
                     Append(listed, email.email_id))
        ELSE with_thread]

\* Mailbox.get_thread_emails(thread_id): the emails of the thread in the
\* order of the list, or the KeyError of self._emails[eid].
get_thread_emails(self, thread_id) ==
  LET email_ids == IF thread_id \in DOMAIN self._threads
                   THEN self._threads[thread_id] ELSE <<>>
  IN IF \E i \in 1..Len(email_ids) : email_ids[i] \notin DOMAIN self._emails
     THEN [kind |-> "KeyError", emails |-> <<>>]
     ELSE [kind |-> "ok",
           emails |-> [i \in 1..Len(email_ids) |-> self._emails[email_ids[i]]]]

\* Mailbox.delete_email(email_id): the returned bool and the Mailbox after.
delete_email(self, email_id) ==
  IF email_id \notin DOMAIN self._emails THEN [ret |-> FALSE, self |-> self]
  ELSE LET thread_id == self._emails[email_id].thread_id
           after_pop == delitem(self._emails, email_id)
           kept == IF thread_id \in DOMAIN self._threads
                   THEN SelectSeq(self._threads[thread_id],
                                  LAMBDA eid : eid # email_id)
                   ELSE <<>>
       IN [ret |-> TRUE,
           self |->
             [_emails |-> after_pop,
              _threads |->
                IF thread_id \notin DOMAIN self._threads THEN self._threads
                ELSE IF kept = <<>> THEN delitem(self._threads, thread_id)
                ELSE setitem(self._threads, thread_id, kept)]]

-----------------------------------------------------------------------------
(* Calendar.add_meeting called by two threads on one Calendar.  A thread   *)
(* can be suspended between any two accesses to the Calendar, so a step is *)
(* one read or one write of self.meetings or self.next_id.  When the       *)
(* callers serialise their calls (locking), a call is made holding the one *)
(* lock, which is released when the call ends.                             *)

\* The arguments of the add_meeting calls of the threads.
ThreadRequests ==
  {[topic |-> "A", organizer |-> "ann", duration |-> 60,
    start_time |-> strptime(<<2025, 4, 28>>, <<10, 0>>).t, priority |-> "MEDIUM"],
   [topic |-> "B", organizer |-> "bob", duration |-> 30,
    start_time |-> strptime(<<2025, 4, 28>>, <<10, 30>>).t, priority |-> "HIGH"],
   [topic |-> "C", organizer |-> "ann", duration |-> 60,
    start_time |-> strptime(<<2025, 4, 28>>, <<11, 0>>).t, priority |-> "LOW"]}

\* What the thread steps leave alone: the policy and the record of the
\* one-at-a-time calls.
ThreadFrame ==
  UNCHANGED <<working_days, work_start_hour, work_end_hour, last, locking,
              _emails, _threads>>

\* The lock after thread p took it, for callers that serialise; taking it
\* waits until it is free.
Acquire(p) ==
  /\ locking => lock = Free
  /\ lock' = IF locking THEN p ELSE lock

\* The lock after the call of its holder ended.
Release == lock' = IF locking THEN Free ELSE lock

\* A thread enters add_meeting (line 129: free = True).
add_meeting_enter(p) ==
  /\ threads[p].pc = "idle"
  /\ next_id <= MaxId /\ Len(meetings) <= MaxId
  /\ Acquire(p)
  /\ \E r \in ThreadRequests :
       threads' = [threads EXCEPT ![p] =
                     [pc |-> "scan", request |-> r, index |-> 1, id |-> 0,
                      read |-> 0, result |-> "running"]]
  /\ UNCHANGED <<meetings, next_id>>
  /\ ThreadFrame

\* The scan that never finds a conflict.
add_meeting_scan_finds_nothing(p) ==
  /\ threads[p].pc = "scan"
  /\ threads' = [threads EXCEPT ![p].pc = "create"]
  /\ UNCHANGED <<meetings, next_id, lock>>
  /\ ThreadFrame

\* One pass of the for loop of lines 130-133, and the raise of line 141 when
\* the meeting read overlaps; the loop ends when the list has no next element.
add_meeting_scan(p) ==
  LET t == threads[p]
  IN /\ t.pc = "scan"
     /\ IF t.index > Len(meetings)
        THEN /\ threads' = [threads EXCEPT ![p].pc = "create"]
             /\ UNCHANGED lock
        ELSE IF overlaps(t.request.start_time,
                         t.request.start_time + t.request.duration,
                         meetings[t.index])
        THEN /\ threads' = [threads EXCEPT ![p] = IdleThread("raised")]
             /\ Release
        ELSE /\ threads' = [threads EXCEPT ![p].index = t.index + 1]
             /\ UNCHANGED lock
     /\ UNCHANGED <<meetings, next_id>>
     /\ ThreadFrame

\* Line 136: Meeting(self.next_id, ...) reads self.next_id.
add_meeting_create(p) ==
  /\ threads[p].pc = "create"
  /\ threads' = [threads EXCEPT ![p].id = next_id, ![p].pc = "append"]
  /\ UNCHANGED <<meetings, next_id, lock>>
  /\ ThreadFrame

\* Line 137: self.meetings.append(new_meeting).
add_meeting_append(p) ==
  LET t == threads[p]
  IN /\ t.pc = "append"
     /\ meetings' = Append(meetings,
                           Meeting(t.id, t.request.topic, t.request.organizer,
                                   t.request.duration, t.request.start_time,
                                   t.request.priority))
     /\ threads' = [threads EXCEPT ![p].pc = "read"]
     /\ UNCHANGED <<next_id, lock>>
     /\ ThreadFrame

\* Line 138, self.next_id += 1: the read of self.next_id.
add_meeting_read_next_id(p) ==
  /\ threads[p].pc = "read"
  /\ threads' = [threads EXCEPT ![p].read = next_id, ![p].pc = "write"]
  /\ UNCHANGED <<meetings, next_id, lock>>
  /\ ThreadFrame

\* Line 138, self.next_id += 1: the write of self.next_id; line 139, return
\* True.
add_meeting_write_next_id(p) ==
  /\ threads[p].pc = "write"
  /\ next_id' = threads[p].read + 1
  /\ threads' = [threads EXCEPT ![p] = IdleThread("returned")]
  /\ Release
  /\ UNCHANGED meetings
  /\ ThreadFrame

\* Two threads and a Calendar with no meetings; the callers either serialise
\* their calls with the lock or do not.
InitThreads ==
  /\ meetings = Calendar_init.meetings
  /\ next_id = Calendar_init.next_id
  /\ working_days = Calendar_init.working_days
  /\ work_start_hour = Calendar_init.work_start_hour
  /\ work_end_hour = Calendar_init.work_end_hour
  /\ last = Outcome("init", <<>>, "returned", TRUE, Text(""), <<>>)
  /\ threads = [p \in Threads |-> IdleThread("none")]
  /\ lock = Free
  /\ locking \in BOOLEAN
  /\ _emails = Mailbox_init._emails
  /\ _threads = Mailbox_init._threads

NextThreads ==
  \E p \in Threads :
    \/ add_meeting_enter(p)
    \/ add_meeting_scan(p)
    \/ add_meeting_create(p)
    \/ add_meeting_append(p)
    \/ add_meeting_read_next_id(p)
    \/ add_meeting_write_next_id(p)

SpecThreads == InitThreads /\ [][NextThreads]_vars

-----------------------------------------------------------------------------
(* Calendar._next_working_time on its own: a Calendar with some policy     *)
(* that set_working_days and set_working_hours accept, and one call.       *)

\* Sets of working days.
WorkingDaySets ==
  {{0, 1, 2, 3, 4}, {}, {5}, {1, 3}, {0, 6}, {0, 1, 2, 3, 4, 5, 6}}

\* <<work_start_hour, work_end_hour>> with 0 <= start < end <= 24.
WorkingHours == {<<9, 18>>, <<0, 24>>, <<0, 1>>, <<23, 24>>, <<12, 13>>}

\* The times _next_working_time is called with: Friday 2025-04-25 to Monday
\* 2025-04-28, at several times of the day.
Times ==
  {strptime(<<2025, 4, d>>, hm).t :
     d \in 25..28,
     hm \in {<<0, 0>>, <<8, 59>>, <<9, 0>>, <<12, 30>>, <<17, 59>>, <<18, 0>>,
             <<23, 30>>}}

InitPolicy ==
  /\ meetings = Calendar_init.meetings
  /\ next_id = Calendar_init.next_id
  /\ working_days \in WorkingDaySets
  /\ \E hours \in WorkingHours :
       work_start_hour = hours[1] /\ work_end_hour = hours[2]
  /\ last = Outcome("init", <<>>, "returned", TRUE, Text(""), <<>>)
  /\ threads = [p \in Threads |-> IdleThread("none")]
  /\ lock = Free
  /\ locking = FALSE
  /\ _emails = Mailbox_init._emails
  /\ _threads = Mailbox_init._threads

\* A call of Calendar._next_working_time(time) and how it ends.
NextWorkingTime ==
  \E time \in Times :
    LET r == next_working_time(Self, time, sweep_limit(Self, time))
    IN /\ Idle
       /\ last' = Outcome("next_working_time", [time |-> time],
                          IF r.kind = "ok" THEN "returned" ELSE "hang",
                          r.kind = "ok", Text(""),
                          IF r.kind = "ok" THEN <<r.t>> ELSE <<>>)
       /\ Store(Self)

SpecNextWorkingTime == InitPolicy /\ [][NextWorkingTime]_vars

-----------------------------------------------------------------------------
(* The Mailbox on its own: calls of add_email, delete_email and            *)
(* get_thread_emails, one at a time.                                       *)

EmailIds == {"e1", "e2"}
ThreadIds == {"t1", "t2"}
Subjects == {"s1", "s2"}

\* The Calendar is not touched by the Mailbox.
MailFrame ==
  UNCHANGED <<meetings, next_id, working_days, work_start_hour, work_end_hour,
              threads, lock, locking>>

InitMailbox ==
  /\ meetings = Calendar_init.meetings
  /\ next_id = Calendar_init.next_id
  /\ working_days = Calendar_init.working_days
  /\ work_start_hour = Calendar_init.work_start_hour
  /\ work_end_hour = Calendar_init.work_end_hour
  /\ last = Outcome("init", <<>>, "returned", TRUE, Text(""), <<>>)
  /\ threads = [p \in Threads |-> IdleThread("none")]
  /\ lock = Free
  /\ locking = FALSE
  /\ _emails = Mailbox_init._emails
  /\ _threads = Mailbox_init._threads

AddEmail ==
  \E subject \in Subjects, thread_id \in ThreadIds, email_id \in EmailIds :
    LET email == Email(subject, thread_id, email_id)
        self == add_email(MailSelf, email)
    IN /\ _emails' = self._emails
       /\ _threads' = self._threads
       /\ last' = Outcome("add_email", email, "returned", TRUE, Text(""), <<>>)
       /\ MailFrame

DeleteEmail ==
  \E email_id \in EmailIds :
    LET r == delete_email(MailSelf, email_id)
    IN /\ _emails' = r.self._emails
       /\ _threads' = r.self._threads
       /\ last' = Outcome("delete_email", [email_id |-> email_id], "returned",
                          r.ret, Text(""), <<>>)
       /\ MailFrame

GetThreadEmails ==
  \E thread_id \in ThreadIds :
    LET r == get_thread_emails(MailSelf, thread_id)
    IN /\ last' = Outcome("get_thread_emails", [thread_id |-> thread_id],
                          IF r.kind = "ok" THEN "returned" ELSE "raised",
                          r.kind = "ok",
                          Text(IF r.kind = "ok" THEN "" ELSE "KeyError"),
                          r.emails)
       /\ UNCHANGED <<_emails, _threads>>
       /\ MailFrame

NextMailbox == AddEmail \/ DeleteEmail \/ GetThreadEmails

SpecMailbox == InitMailbox /\ [][NextMailbox]_vars

-----------------------------------------------------------------------------
(* The calendar and the calls made on it, one at a time.                   *)

Init ==
  /\ meetings = Calendar_init.meetings
  /\ next_id = Calendar_init.next_id
  /\ working_days = Calendar_init.working_days
  /\ work_start_hour = Calendar_init.work_start_hour
  /\ work_end_hour = Calendar_init.work_end_hour
  /\ last = Outcome("init", <<>>, "returned", TRUE, Text(""), <<>>)
  /\ threads = [p \in Threads |-> IdleThread("none")]
  /\ lock = Free
  /\ locking = FALSE
  /\ _emails = Mailbox_init._emails
  /\ _threads = Mailbox_init._threads

AddMeeting ==
  \E r \in AddRequests :
    AddMeetingTool_forward(r[1], r[2], r[3], r[4], r[5], r[6])

RemoveMeeting ==
  \E meeting_id \in 1..(MaxId + 1) : RemoveMeetingTool_forward(meeting_id)

ListMeetings == ListMeetingsTool_forward

FindFreeSlot ==
  \E duration \in FindDurations, start \in FindStarts :
    FindFreeSlotTool_forward(duration, start[1], start[2])

IsTimeAvailable ==
  \E c \in AvailabilityChecks : IsTimeAvailableTool_forward(c[1], c[2], c[3])

SetWorkingDays == \E days \in DayLists : SetWorkingDaysTool_forward(days)

SetWorkingHours == \E hours \in HourPairs : SetWorkingHoursTool_forward(hours)

Next ==
  \/ AddMeeting
  \/ RemoveMeeting
  \/ ListMeetings
  \/ FindFreeSlot
  \/ IsTimeAvailable
  \/ SetWorkingDays
  \/ SetWorkingHours

Spec == Init /\ [][Next]_vars

-----------------------------------------------------------------------------
(* Properties.                                                             *)

\* The stored meetings, as a set.
Stored == {meetings[i] : i \in 1..Len(meetings)}

\* The start of the last call, for a call whose date and time parse.
LastStart == strptime(last.args.date, last.args.time).t

\* C1: no two distinct stored meetings m1, m2 satisfy m1.start < m2.end and
\* m2.start < m1.end, after any sequence of calls from the empty calendar.
C1_NoOverlap ==
  \A i, j \in 1..Len(meetings) :
    i # j =>
      ~(/\ meetings[i].start_time < meetings[j].start_time + meetings[j].duration
        /\ meetings[j].start_time < meetings[i].start_time + meetings[i].duration)

\* C1 witness: two meetings are stored, one starting exactly when the other
\* ends, and a later add_meeting that overlaps one of them was refused.
C1_Witness ==
  /\ \E i, j \in 1..Len(meetings) :
       /\ meetings[i].duration > 0 /\ meetings[j].duration > 0
       /\ meetings[i].start_time + meetings[i].duration = meetings[j].start_time
  /\ last.op = "add_meeting" /\ last.message.text = "busy"

\* C2: next_id starts at 1, grows by exactly 1 on every successful add_meeting
\* and is unchanged by every other call; the meeting added gets the old
\* next_id, and the stored ids are always pairwise distinct, positive and
\* smaller than next_id.
C2_IdsBelowNextId ==
  /\ \A i \in 1..Len(meetings) : meetings[i].id >= 1 /\ meetings[i].id < next_id
  /\ \A i, j \in 1..Len(meetings) : i # j => meetings[i].id # meetings[j].id

C2_NextId ==
  [][/\ last.op = "init" => next_id = 1
     /\ C2_IdsBelowNextId /\ C2_IdsBelowNextId'
     /\ IF last'.op = "add_meeting" /\ last'.success
        THEN /\ next_id' = next_id + 1
             /\ \E m \in Stored' : m.id = next_id /\ m \notin Stored
        ELSE next_id' = next_id]_vars

\* C2 witness: a meeting was removed and a later add_meeting got a greater id
\* than the removed one.
C2_Witness ==
  /\ last.op = "add_meeting" /\ last.success
  /\ Len(meetings) = 1 /\ meetings[1].id = 2 /\ next_id = 3

\* The priority a priority argument stands for.
PriorityOf(p) ==
  CASE p = "" -> "MEDIUM" [] p = "high" -> "HIGH" [] p = "LOW" -> "LOW"
    [] OTHER -> "invalid"

\* The add_meeting call of a step has arguments that parse.
AddIsWellFormed(l) ==
  /\ l.op = "add_meeting"
  /\ PriorityOf(l.args.priority) # "invalid"
  /\ strptime(l.args.date, l.args.time).ok

\* The topics of the meetings that overlap [start, start + duration).
ConflictTopics(start, duration) ==
  LET c == get_conflicting_meetings(Self, start, duration)
  IN [i \in 1..Len(c) |-> c[i].topic]

\* C3: when the requested interval overlaps a stored meeting, add_meeting
\* fails with an outcome that carries the conflicting meetings and the
\* suggestion find_next_free_slot(start, duration).
C3_ConflictIsReported ==
  [][(/\ AddIsWellFormed(last')
      /\ get_conflicting_meetings(
           Self, strptime(last'.args.date, last'.args.time).t,
           last'.args.duration) # <<>>)
     => /\ last'.status = "raised"
        /\ last'.message.topics =
             ConflictTopics(strptime(last'.args.date, last'.args.time).t,
                            last'.args.duration)
        /\ last'.message.next_slot =
             <<find_next_free_slot(
                 Self, strptime(last'.args.date, last'.args.time).t,
                 last'.args.duration).t>>]_vars

\* What a successful add_meeting does to the calendar: one meeting appended
\* with id next_id and the arguments given, next_id incremented.
AddStoresTheMeeting ==
  /\ meetings' = Append(meetings,
       [id |-> next_id, topic |-> last'.args.topic,
        organizer |-> last'.args.organizer, duration |-> last'.args.duration,
        start_time |-> strptime(last'.args.date, last'.args.time).t,
        priority |-> PriorityOf(last'.args.priority)])
  /\ next_id' = next_id + 1
  /\ last'.status = "returned" /\ last'.success

\* The add_meeting call of a step overlaps no stored meeting.
AddIsFree ==
  /\ AddIsWellFormed(last')
  /\ get_conflicting_meetings(
       Self, strptime(last'.args.date, last'.args.time).t,
       last'.args.duration) = <<>>

\* C4 as stated: when no stored meeting overlaps, add_meeting stores the
\* meeting, increments next_id and returns success carrying the new id.
C4_AddReturnsId ==
  [][AddIsFree => (AddStoresTheMeeting /\ last'.data = <<next_id>>)]_vars

\* C4 amended: when no stored meeting overlaps, add_meeting stores exactly
\* one new meeting with id next_id and the arguments given, increments
\* next_id and returns success; the result carries no id (its data is None).
C4_AddStores ==
  [][AddIsFree => (AddStoresTheMeeting /\ last'.data = <<>>)]_vars

\* C4 witness: a meeting with a non-default priority was added to a calendar
\* that held another meeting.
C4_Witness ==
  /\ last.op = "add_meeting" /\ last.success
  /\ Len(meetings) = 2 /\ meetings[2].priority = "HIGH"

\* t is working time, [t, t + d) ends no later than work_end_hour:00 of the
\* day of t and overlaps no stored meeting.
Qualifies(t, d) ==
  /\ weekday(t) \in working_days
  /\ work_start_hour <= hour_of(t) /\ hour_of(t) < work_end_hour
  /\ t + d <= date_of(t) * Day + work_end_hour * 60
  /\ \A i \in 1..Len(meetings) :
       ~(/\ t < meetings[i].start_time + meetings[i].duration
         /\ meetings[i].start_time < t + d)

\* find_free_slot returned a slot.
SlotFound == last.op = "find_free_slot" /\ last.status = "returned" /\ last.success

\* C5: the timestamp find_next_free_slot(t, d) returns, d positive, is
\* working time, ends no later than work_end_hour:00 of its day and overlaps
\* no stored meeting, also when the calendar holds no meetings.
C5_SlotQualifies ==
  (SlotFound /\ last.args.duration > 0)
    => Qualifies(last.data[1], last.args.duration)

\* C6: the timestamp r that find_next_free_slot(start, d) returns is no
\* earlier than start and no timestamp t with start <= t < r qualifies.
C6_Earliest ==
  SlotFound =>
    /\ last.data[1] >= LastStart
    /\ \A t \in LastStart..(last.data[1] - 1) : ~Qualifies(t, last.args.duration)

\* C6 witness: the search moved past a stored meeting and past a day's end to
\* the start of the next working day.
C6_Witness ==
  /\ SlotFound /\ Len(meetings) > 0
  /\ date_of(last.data[1]) > date_of(LastStart)
  /\ hour_of(LastStart) >= work_start_hour
  /\ weekday(LastStart) \in working_days

\* C7: find_next_free_slot terminates with a result for every reachable
\* calendar, every start and every positive duration.
C7_Terminates ==
  (last.op = "find_free_slot" /\ last.args.duration > 0) => last.status # "hang"

\* A call that ended in a failure: an exception, or a result that reports
\* no success.
Failed(l) == l.status = "raised" \/ (l.status = "returned" /\ ~l.success)

\* C8: an operation that ends in a failure leaves meetings, next_id,
\* working_days, work_start_hour and work_end_hour as they were.
C8_FailureChangesNothing ==
  [][(Failed(last') /\ last'.op # "remove_meeting")
     => UNCHANGED <<meetings, next_id, working_days, work_start_hour,
                    work_end_hour>>]_vars

\* C8 witness: an add_meeting was refused for a conflict, on a calendar whose
\* hours an earlier call had changed.
C8_Witness ==
  /\ last.op = "add_meeting" /\ last.status = "raised"
  /\ last.message.text = "busy" /\ work_end_hour = 24

\* C9: set_working_hours(start, end) succeeds and replaces both hours iff
\* 0 <= start < end <= 24, and otherwise fails and leaves the hours; so
\* 0 <= work_start_hour < work_end_hour <= 24 always holds.
C9_HoursInRange ==
  0 <= work_start_hour /\ work_start_hour < work_end_hour /\ work_end_hour <= 24

C9_SetWorkingHours ==
  [][/\ C9_HoursInRange /\ C9_HoursInRange'
     /\ last'.op = "set_working_hours" =>
          IF /\ 0 <= last'.args.work_start_hour
             /\ last'.args.work_start_hour < last'.args.work_end_hour
             /\ last'.args.work_end_hour <= 24
          THEN /\ last'.success
               /\ work_start_hour' = last'.args.work_start_hour
               /\ work_end_hour' = last'.args.work_end_hour
          ELSE /\ ~last'.success
               /\ last'.message.text = "bad working hours"
               /\ UNCHANGED <<work_start_hour, work_end_hour>>]_vars

\* C9 witness: set_working_hours(20, 18) was refused on a calendar whose
\* hours are 9-18.
C9_Witness ==
  /\ last.op = "set_working_hours" /\ ~last.success
  /\ last.args.work_start_hour = 20 /\ last.args.work_end_hour = 18
  /\ work_start_hour = 9 /\ work_end_hour = 18

\* C10: remove_meeting(id) on a stored id removes exactly the meeting with
\* that id and reports success; the other meetings, next_id and the policy
\* are unchanged.
C10_RemoveStored ==
  [][(/\ last'.op = "remove_meeting"
      /\ \E m \in Stored : m.id = last'.args.meeting_id)
     => /\ last'.status = "returned" /\ last'.success
        /\ meetings' = SelectSeq(meetings,
                                 LAMBDA m : m.id # last'.args.meeting_id)
        /\ Len(meetings') = Len(meetings) - 1
        /\ UNCHANGED <<next_id, working_days, work_start_hour, work_end_hour>>]_vars

\* C10 witness: the first of two stored meetings was removed.
C10_Witness ==
  /\ last.op = "remove_meeting" /\ last.success
  /\ Len(meetings) = 1 /\ meetings[1].id = 2 /\ last.args.meeting_id = 1

\* C11: remove_meeting(id) on an id that is not stored (never assigned, or
\* already removed) returns False as a normal result, raises nothing and
\* leaves the meetings and the whole Calendar as they were; calling it again
\* ends the same way.
C11_RemoveUnknown ==
  [][(/\ last'.op = "remove_meeting"
      /\ ~(\E m \in Stored : m.id = last'.args.meeting_id))
     => /\ last'.status = "returned" /\ ~last'.success
        /\ last'.message.text = "not found"
        /\ UNCHANGED <<meetings, next_id, working_days, work_start_hour,
                       work_end_hour>>
        /\ (/\ last.op = "remove_meeting"
            /\ last.args.meeting_id = last'.args.meeting_id
            /\ ~last.success) => last' = last]_vars

\* C11 witness: the id of a meeting that was added and removed is removed
\* again, while another meeting is stored.
C11_Witness ==
  /\ last.op = "remove_meeting" /\ ~last.success
  /\ last.args.meeting_id = 1 /\ next_id = 3
  /\ Len(meetings) = 1 /\ meetings[1].id = 2

\* The set of the meetings of a list.
Range(ms) == {ms[i] : i \in 1..Len(ms)}

\* C12: when add_meeting succeeds and assigns id n, remove_meeting(n) right
\* after it succeeds and the stored meetings, as a set and in number, are
\* those before the add_meeting.
C12_AddThenRemove ==
  [][/\ (last'.op = "add_meeting" /\ last'.success)
        => LET r == remove_meeting(Self', next_id)
           IN /\ r.ret
              /\ Range(r.self.meetings) = Stored
              /\ Len(r.self.meetings) = Len(meetings)
     /\ (/\ last.op = "add_meeting" /\ last.success
         /\ last'.op = "remove_meeting"
         /\ last'.args.meeting_id = next_id - 1)
        => /\ last'.status = "returned" /\ last'.success
           /\ meetings' = remove_meeting(Self, next_id - 1).self.meetings
           /\ meetings' = SubSeq(meetings, 1, Len(meetings) - 1)]_vars

\* C12 witness: the meeting added last was removed and the meeting stored
\* before it is what the calendar holds.
C12_Witness ==
  /\ last.op = "remove_meeting" /\ last.success
  /\ last.args.meeting_id = 2 /\ next_id = 3
  /\ Len(meetings) = 1 /\ meetings[1].id = 1

\* The add_meeting call of a step starts exactly at the end of a stored
\* meeting or ends exactly at the start of one.
AddTouches ==
  LET start == strptime(last'.args.date, last'.args.time).t
  IN \E m \in Stored :
       \/ m.start_time + m.duration = start
       \/ start + last'.args.duration = m.start_time

\* C13: touching intervals are not a conflict: an add_meeting that starts
\* exactly at the end of a stored meeting, or ends exactly at the start of
\* one, and overlaps no stored meeting is accepted.
C13_TouchingIsAccepted ==
  [][(/\ AddIsWellFormed(last') /\ AddTouches
      /\ \A m \in Stored :
           LET start == strptime(last'.args.date, last'.args.time).t
           IN \/ m.start_time + m.duration <= start
              \/ start + last'.args.duration <= m.start_time)
     => /\ last'.status = "returned" /\ last'.success
        /\ Len(meetings') = Len(meetings) + 1
        /\ meetings'[Len(meetings')].start_time =
             strptime(last'.args.date, last'.args.time).t]_vars

\* C13 witness: with hours 9-18, a meeting at 10:00 for 60 minutes and then
\* a meeting at 11:00 for 60 minutes on the same day were both added.
C13_Witness ==
  /\ work_start_hour = 9 /\ work_end_hour = 18
  /\ last.op = "add_meeting" /\ last.success
  /\ Len(meetings) = 2
  /\ meetings[1].topic = "A" /\ meetings[1].duration = 60
  /\ hour_of(meetings[1].start_time) = 10 /\ minute_of(meetings[1].start_time) = 0
  /\ meetings[2].topic = "C" /\ meetings[2].duration = 60
  /\ meetings[2].start_time = meetings[1].start_time + 60

\* C14: is_time_available(start, duration) reports available = true iff
\* start is working time, start + duration lies on the same calendar day and
\* is no later than work_end_hour:00 of that day, and no stored meeting
\* overlaps [start, start + duration); for every policy set_working_hours
\* accepts.
C14_AvailableIff ==
  (last.op = "is_time_available" /\ strptime(last.args.date, last.args.time).ok)
    => /\ last.status = "returned" /\ last.data # <<>>
       /\ last.data[1].available <=>
            /\ Qualifies(LastStart, last.args.duration)
            /\ date_of(LastStart + last.args.duration) = date_of(LastStart)

\* The summaries of a listing are in ascending order of start.
AscendingByStart(lines) ==
  \A i, j \in 1..Len(lines) : i < j => lines[i].start <= lines[j].start

\* C15 as stated: list_meetings returns the stored meetings ordered by
\* ascending start, whatever the order in which they were added, as
\* get_state_string does.
C15_ListIsSorted ==
  last.op = "list_meetings" => AscendingByStart(last.data)

\* C15 amended: list_meetings returns every stored meeting once, in the order
\* in which the meetings were added; get_state_string returns them ordered
\* by ascending start.
C15_ListIsInsertionOrder ==
  /\ last.op = "list_meetings" =>
       /\ Len(last.data) = Len(meetings)
       /\ \A i \in 1..Len(meetings) :
            /\ last.data[i].id = meetings[i].id
            /\ last.data[i].topic = meetings[i].topic
            /\ last.data[i].start = meetings[i].start_time
            /\ last.data[i].end = meetings[i].start_time + meetings[i].duration
       /\ \A i, j \in 1..Len(last.data) : i < j => last.data[i].id < last.data[j].id
  /\ AscendingByStart(get_state_string(Self))
  /\ Range(get_state_string(Self)) = {Meeting_str(m) : m \in Stored}
  /\ Len(get_state_string(Self)) = Len(meetings)

\* C15 witness: a meeting at 11:00 and then a meeting at 10:00 were added
\* and list_meetings listed the 11:00 meeting first.
C15_Witness ==
  /\ last.op = "list_meetings" /\ Len(last.data) = 2
  /\ last.data[1].start > last.data[2].start
  /\ hour_of(last.data[1].start) = 11 /\ hour_of(last.data[2].start) = 10

\* Saturday 2025-04-26 and Monday 2025-04-28, 00:00.
Saturday == strptime(<<2025, 4, 26>>, NoTime).t
Monday == strptime(<<2025, 4, 28>>, NoTime).t

\* C16: with working days Monday-Friday, hours 9-18 and no meetings,
\* find_next_free_slot(t, 60) for a t on a Saturday or Sunday returns 09:00
\* of the following Monday.
C16_WeekendSkip ==
  (/\ last.op = "find_free_slot"
   /\ strptime(last.args.date, last.args.time).ok
   /\ last.args.duration = 60
   /\ Saturday <= LastStart /\ LastStart < Monday
   /\ working_days = {0, 1, 2, 3, 4}
   /\ work_start_hour = 9 /\ work_end_hour = 18
   /\ meetings = <<>>)
    => /\ last.status = "returned" /\ last.success
       /\ last.data = <<Monday + 9 * 60>>
       /\ \A t \in Saturday..(Monday - 1) :
            find_next_free_slot(Self, t, 60) = Returned(Monday + 9 * 60)

\* C16 witness: find_next_free_slot(Saturday 10:00, 60) on the empty
\* calendar with the default policy returned a slot.
C16_Witness ==
  /\ SlotFound /\ last.args.duration = 60
  /\ last.args.date = <<2025, 4, 26>> /\ last.args.time = <<10, 0>>
  /\ working_days = {0, 1, 2, 3, 4}
  /\ work_start_hour = 9 /\ work_end_hour = 18
  /\ meetings = <<>>

\* C17: every stored meeting has a duration greater than 0 and ends at its
\* start plus its duration: no sequence of calls stores a meeting of zero or
\* negative duration.
C17_PositiveDuration ==
  \A m \in Stored :
    m.duration > 0 /\ end_time(m) = m.start_time + m.duration

\* All threads are outside add_meeting.
NoCallRunning == \A p \in Threads : threads[p].pc = "idle"

\* Two distinct stored meetings overlap.
SomeOverlap ==
  \E i, j \in 1..Len(meetings) :
    /\ i # j
    /\ meetings[i].start_time < meetings[j].start_time + meetings[j].duration
    /\ meetings[j].start_time < meetings[i].start_time + meetings[i].duration

\* C18: when the calls of add_meeting are made under one lock, no state with
\* two overlapping stored meetings is reachable, and a call that returned
\* True stored its meeting; without the lock such a state is reachable (the
\* witness).
C18_SerialisedNoOverlap ==
  locking =>
    /\ ~SomeOverlap
    /\ \A p, q \in Threads : (p # q) => (threads[p].pc = "idle" \/ threads[q].pc = "idle")
    /\ \A i, j \in 1..Len(meetings) : i # j => meetings[i].id # meetings[j].id

\* C18 witness: without the lock, two calls of add_meeting that interleaved
\* between the scan and the append both returned True and their meetings
\* overlap.
C18_Witness ==
  /\ ~locking /\ NoCallRunning
  /\ \A p \in Threads : threads[p].result = "returned"
  /\ Len(meetings) = 2 /\ SomeOverlap

\* The stored meetings m with start < m.end and m.start < start + duration.
Overlapping(start, duration) ==
  {m \in Stored : /\ start < m.start_time + m.duration
                  /\ m.start_time < start + duration}

\* C19: get_conflicting_meetings(start, duration) returns exactly the stored
\* meetings m with start < m.end and m.start < start + duration, and
\* add_meeting(start, duration) succeeds iff there is none.
C19_SameTest ==
  [][/\ AddIsWellFormed(last') =>
          LET start == strptime(last'.args.date, last'.args.time).t
              c == get_conflicting_meetings(Self, start, last'.args.duration)
          IN /\ Range(c) = Overlapping(start, last'.args.duration)
             /\ Len(c) = Cardinality(Overlapping(start, last'.args.duration))
             /\ (last'.status = "returned" /\ last'.success)
                  <=> Overlapping(start, last'.args.duration) = {}
             /\ (last'.status = "returned" /\ last'.success)
                  <=> Len(meetings') = Len(meetings) + 1
     /\ (last'.op = "is_time_available" /\ last'.data # <<>>) =>
          LET start == strptime(last'.args.date, last'.args.time).t
              ids == last'.data[1].conflicting_meetings
          IN /\ Range(ids) = {m.id : m \in Overlapping(start, last'.args.duration)}
             /\ last'.data[1].is_free_from_meetings
                  <=> Overlapping(start, last'.args.duration) = {}]_vars

\* C19 witness: an add_meeting was refused while two meetings were stored,
\* one of which overlaps the requested interval and one of which only
\* touches it.
C19_Witness ==
  /\ last.op = "add_meeting" /\ last.message.text = "busy"
  /\ Len(meetings) = 2
  /\ Cardinality(Overlapping(LastStart, last.args.duration)) = 1
  /\ \E m \in Stored : m.start_time = LastStart + last.args.duration

\* t is working time under the policy of the calendar.
IsWorking(t) ==
  /\ weekday(t) \in working_days
  /\ work_start_hour <= hour_of(t) /\ hour_of(t) < work_end_hour

\* C20: for every t and every policy, _next_working_time(t) returns the
\* smallest t' >= t that is working time: t itself when t is working time,
\* otherwise work_start_hour:00 of a working day; the result has
\* work_start_hour <= hour < work_end_hour and a working weekday.
C20_SmallestWorkingTime ==
  last.op = "next_working_time" =>
    /\ last.status = "returned"
    /\ last.data # <<>>
    /\ LET t == last.args.time
           r == last.data[1]
       IN /\ r >= t /\ IsWorking(r)
          /\ \A u \in t..(r - 1) : ~IsWorking(u)
          /\ IsWorking(t) => r = t
          /\ ~IsWorking(t) => (hour_of(r) = work_start_hour /\ minute_of(r) = 0)

\* The for loop of find_next_free_slot without its break: after current_time
\* moved past the meeting at position i the loop goes on with the meeting at
\* position i + 1.
RECURSIVE forward_pass(_, _, _, _, _, _)
forward_pass(self, sorted_meetings, i, current_time, duration, limit) ==
  IF i > Len(sorted_meetings) THEN Returned(current_time)
  ELSE IF overlaps(current_time, current_time + duration, sorted_meetings[i])
  THEN LET next == to_working_time(self, end_time(sorted_meetings[i]), limit)
       IN IF next.kind # "ok" THEN next
          ELSE forward_pass(self, sorted_meetings, i + 1, next.t, duration, limit)
  ELSE forward_pass(self, sorted_meetings, i + 1, current_time, duration, limit)

\* The search with a single forward pass for each day: the pass, then the
\* test against the end of the working day, and on to the next working
\* time when the slot does not fit.
RECURSIVE single_pass_sweep(_, _, _, _, _)
single_pass_sweep(self, sorted_meetings, current_time, duration, limit) ==
  IF current_time > limit THEN Hangs
  ELSE LET p == forward_pass(self, sorted_meetings, 1, current_time, duration,
                             limit)
       IN IF p.kind # "ok" THEN p
          ELSE IF p.t > limit THEN Hangs
          ELSE IF ~hour_is_valid(self.work_end_hour) THEN Raised
          ELSE IF p.t + duration <= replace_hour(p.t, self.work_end_hour)
          THEN p
          ELSE LET next == next_working_time(
                             self, replace_hour_only(p.t, self.work_end_hour),
                             limit)
               IN IF next.kind # "ok" THEN next
                  ELSE single_pass_sweep(self, sorted_meetings, next.t,
                                         duration, limit)

\* find_next_free_slot with the single forward pass.
find_single_pass(self, start_time, duration) ==
  LET limit == sweep_limit(self, start_time)
      first == to_working_time(self, start_time, limit)
      sorted_meetings == sorted_by_start(self.meetings)
  IN IF first.kind # "ok" THEN first
     ELSE IF sorted_meetings = <<>>
     THEN IF hour_of(first.t) < self.work_start_hour
          THEN Returned(replace_hour(first.t, self.work_start_hour))
          ELSE first
     ELSE single_pass_sweep(self, sorted_meetings, first.t, duration, limit)

\* The find_free_slot call of the last step, as find_outcome reports what
\* the single forward pass ends with.
SinglePassOutcome ==
  find_outcome(last.args, find_single_pass(Self, LastStart, last.args.duration))

\* C21 amended: the restart of the scan is not needed for the result: in
\* every reachable calendar and for every start and duration, the single
\* forward pass over the meetings sorted by start ends as find_next_free_slot
\* does, with the same slot.
C21_SinglePassAgrees ==
  (last.op = "find_free_slot" /\ strptime(last.args.date, last.args.time).ok)
    => last = SinglePassOutcome

\* C21 witness: a search moved past one stored meeting and then past the
\* next one, and returned the end of the second.
C21_Witness ==
  /\ SlotFound /\ Len(meetings) = 2
  /\ \E i, j \in 1..2 :
       /\ LastStart < end_time(meetings[i])
       /\ end_time(meetings[i]) = meetings[j].start_time
       /\ meetings[i].duration > 0 /\ meetings[j].duration > 0
       /\ last.data[1] = end_time(meetings[j])

\* The add_meeting requests whose arguments parse.
WellFormedRequests ==
  {r \in AddRequests :
     strptime(r[4], r[5]).ok /\ PriorityOf(r[6]) # "invalid"}

\* The lists of meetings that successful add_meeting calls build from the
\* lists of a set: each with one more meeting that overlaps none of its own.
Extended(lists) ==
  {Append(ms, Meeting(Len(ms) + 1, r[1], r[2], r[3], strptime(r[4], r[5]).t,
                      PriorityOf(r[6]))) :
     ms \in lists,
     r \in WellFormedRequests}

\* The lists of at most n meetings that add_meeting calls can build.
RECURSIVE BuiltLists(_)
BuiltLists(n) ==
  IF n = 0 THEN {<<>>}
  ELSE LET shorter == BuiltLists(n - 1)
       IN shorter \cup
          {ms \in Extended(shorter) :
             \A i \in 1..(Len(ms) - 1) :
               ~overlaps(ms[Len(ms)].start_time, end_time(ms[Len(ms)]), ms[i])}

\* The calendars the calls can build: the lists of meetings with the
\* policies that set_working_days and set_working_hours were given and
\* accepted.
BuiltCalendars ==
  {[meetings |-> ms, next_id |-> Len(ms) + 1, working_days |-> Range(days),
    work_start_hour |-> hours[1], work_end_hour |-> hours[2]] :
     ms \in BuiltLists(MaxId),
     days \in {d \in DayLists : \A i \in 1..Len(d) : d[i] \in 0..6},
     hours \in {h \in HourPairs : hours_are_valid(h[1], h[2])}}

\* C21 as stated: the restart of the scan is needed for the result: from
\* the new Calendar there is a calendar the calls can build and an input
\* (start, duration) for which the single forward pass over the meetings
\* sorted by start returns a different slot than find_next_free_slot.
C21_RestartIsNeeded ==
  last.op = "init" =>
    \E c \in BuiltCalendars, start \in FindStarts, duration \in FindDurations :
      /\ strptime(start[1], start[2]).ok
      /\ find_single_pass(c, strptime(start[1], start[2]).t, duration)
           # find_next_free_slot(c, strptime(start[1], start[2]).t, duration)

\* C22: across a single call the stored meetings change in only two ways: a
\* successful add_meeting adds exactly one meeting, and remove_meeting on a
\* stored id removes exactly one; no call, set_working_days and
\* set_working_hours included, changes the id, topic, organizer, start,
\* duration or priority of a meeting that stays stored.
C22_Lifecycle ==
  [][/\ IF last'.op = "add_meeting" /\ last'.status = "returned" /\ last'.success
        THEN /\ Len(meetings') = Len(meetings) + 1
             /\ SubSeq(meetings', 1, Len(meetings)) = meetings
        ELSE IF /\ last'.op = "remove_meeting"
                /\ \E m \in Stored : m.id = last'.args.meeting_id
        THEN /\ Len(meetings') = Len(meetings) - 1
             /\ \E i \in 1..Len(meetings) : meetings' = remove_at(meetings, i)
        ELSE meetings' = meetings
     /\ \A m \in Stored : \A n \in Range(meetings') : m.id = n.id => m = n]_vars

\* C22 witness: set_working_days succeeded on a calendar that holds two
\* meetings, on a day that is no longer a working day.
C22_Witness ==
  /\ last.op = "set_working_days" /\ last.success
  /\ Len(meetings) = 2
  /\ \A m \in Stored : weekday(m.start_time) \notin working_days

\* The calls that only ask.
Queries == {"find_free_slot", "is_time_available", "list_meetings"}

\* C23: the queries (find_next_free_slot, is_time_available with the
\* get_conflicting_meetings and is_working_time it calls, list_meetings)
\* leave the meetings, in content and order, next_id, working_days and the
\* working hours unchanged, whatever their result.
C23_QueriesChangeNothing ==
  [][last'.op \in Queries
     => /\ UNCHANGED <<meetings, next_id, working_days, work_start_hour,
                      work_end_hour>>
        /\ Self' = Self]_vars

\* C23 witness: a search that never returned, on a calendar whose two
\* meetings are not stored in the order of their starts.
C23_Witness ==
  /\ last.op = "find_free_slot" /\ last.status = "hang"
  /\ Len(meetings) = 2
  /\ meetings[1].start_time > meetings[2].start_time

\* C24: no two stored meetings have the same start, so the order by start is
\* strict and the sorted sequence of find_next_free_slot and
\* get_state_string does not depend on the order of insertion.
C24_DistinctStarts ==
  \A i, j \in 1..Len(meetings) :
    i # j => meetings[i].start_time # meetings[j].start_time

\* The date names no day of the calendar or the time no minute of a day.
Malformed(date, time) ==
  \/ date[2] < 1 \/ date[2] > 12
  \/ date[3] < 1 \/ date[3] > days_in_month(date[2])
  \/ /\ time # NoTime
     /\ (time[1] < 0 \/ time[1] > 23 \/ time[2] < 0 \/ time[2] > 59)

\* C25: when the date or the time given to add_meeting, find_free_slot or
\* is_time_available is malformed, the call ends with the parse error (for
\* add_meeting a ValueError, for the other two a result without success and
\* without data), whatever the calendar holds: no conflict is looked for,
\* nothing is stored, no slot is searched, and the meetings, next_id and the
\* policy are unchanged.
C25_ParseError ==
  [][(/\ last'.op \in {"add_meeting", "find_free_slot", "is_time_available"}
      /\ Malformed(last'.args.date, last'.args.time)
      /\ last'.op = "add_meeting" => PriorityOf(last'.args.priority) # "invalid")
     => /\ last'.status = IF last'.op = "add_meeting" THEN "raised" ELSE "returned"
        /\ ~last'.success
        /\ last'.message = Text("bad date or time")
        /\ last'.data = <<>>
        /\ UNCHANGED <<meetings, next_id, working_days, work_start_hour,
                       work_end_hour>>]_vars

\* C25 witness: find_free_slot with a malformed time ended with the parse
\* error on a calendar on which every search runs forever (no working day).
C25_Witness ==
  /\ last.op = "find_free_slot" /\ Malformed(last.args.date, last.args.time)
  /\ last.message.text = "bad date or time"
  /\ working_days = {} /\ Len(meetings) > 0

\* The calendar with the same meetings and next_id under another policy.
UnderPolicy(days, hours) ==
  [Self EXCEPT !.working_days = days, !.work_start_hour = hours[1],
               !.work_end_hour = hours[2]]

\* C26: the outcome of add_meeting does not depend on the working-time
\* policy: on a calendar with the same meetings and next_id and any other
\* working days and hours the same call ends the same way and stores the
\* same meeting; a request outside working time is accepted when it
\* overlaps no stored meeting.
C26_PolicyIndependent ==
  [][AddIsWellFormed(last') =>
       /\ \A days \in {{}, {5}, {0, 1, 2, 3, 4, 5, 6}}, hours \in {<<0, 1>>, <<9, 18>>} :
            add_meeting(UnderPolicy(days, hours), last'.args.topic,
                        last'.args.organizer, last'.args.duration,
                        strptime(last'.args.date, last'.args.time).t,
                        PriorityOf(last'.args.priority))
              = [raised |-> last'.status = "raised",
                 ret |-> last'.status = "returned" /\ last'.success,
                 self |-> [UnderPolicy(days, hours) EXCEPT
                             !.meetings = meetings', !.next_id = next_id']]
       /\ Overlapping(strptime(last'.args.date, last'.args.time).t,
                      last'.args.duration) = {}
            => last'.success]_vars

\* C26 witness: add_meeting stored a meeting on a day that is not a working
\* day.
C26_Witness ==
  /\ last.op = "add_meeting" /\ last.success
  /\ Len(meetings) > 0
  /\ weekday(meetings[Len(meetings)].start_time) \notin working_days
  /\ working_days # {}

\* C27: the slot search and the availability check agree: for every
\* timestamp t and positive duration d, find_next_free_slot(t, d) = t iff
\* is_time_available(t, d) reports available = true.
C27_SearchAgreesWithCheck ==
  (/\ last.op = "is_time_available"
   /\ strptime(last.args.date, last.args.time).ok
   /\ last.args.duration > 0)
    => (find_next_free_slot(Self, LastStart, last.args.duration)
          = Returned(LastStart))
        <=> (last.data # <<>> /\ last.data[1].available)

\* C28: for every set of working days that set_working_days accepts, the
\* empty set included, _next_working_time and find_next_free_slot called on
\* a timestamp that is not working time terminate with a result.  The
\* durations are those that fit into one working day.
C28_Terminates ==
  (/\ last.op = "find_free_slot"
   /\ strptime(last.args.date, last.args.time).ok
   /\ ~IsWorking(LastStart)
   /\ last.args.duration > 0
   /\ last.args.duration <= 60 * (work_end_hour - work_start_hour))
    => /\ next_working_time(Self, LastStart, sweep_limit(Self, LastStart)).kind
            # "hang"
       /\ last.status # "hang"

\* C29: for every pair of hours that set_working_hours accepts, end hour 24
\* included, find_next_free_slot on a calendar with at least one meeting and
\* is_time_available end normally: building the end of the working day (the
\* day of the current time at work_end_hour:00) gives no error of an invalid
\* timestamp.
C29_EndOfDayIsValid ==
  (/\ last.op \in {"find_free_slot", "is_time_available"}
   /\ strptime(last.args.date, last.args.time).ok
   /\ last.op = "find_free_slot" => meetings # <<>>)
    => /\ last.status # "raised"
       /\ last.message # Text("error")

\* The ids listed in the thread with key t.
Listed(t) == {_threads[t][i] : i \in 1..Len(_threads[t])}

\* C30: after any sequence of add_email and delete_email, every email id
\* listed in a thread is in the email store and the thread_id of that email
\* is the key of the thread, each id is listed in at most one thread and at
\* most once, no thread has an empty list, and get_thread_emails does not
\* fail.
C30_IndexConsistent ==
  /\ \A t \in DOMAIN _threads :
       /\ _threads[t] # <<>>
       /\ \A eid \in Listed(t) :
            eid \in DOMAIN _emails /\ _emails[eid].thread_id = t
       /\ \A i, j \in 1..Len(_threads[t]) :
            _threads[t][i] = _threads[t][j] => i = j
       /\ \A u \in DOMAIN _threads : u # t => Listed(t) \cap Listed(u) = {}
  /\ last.op = "get_thread_emails" => last.status = "returned"

====
